---------------------------- MODULE Spec2Model ----------------------------
(***************************************************************************)
(* Model of config_switcher.py: the .env editor (update_env_variable,      *)
(* apply_config), the backup step (backup_env), the credential checker     *)
(* (check_required_keys) and the interactive selection loop (main).        *)
(*                                                                         *)
(* Text.  A Python str is a sequence of symbols.  A symbol is a TLA+       *)
(* string standing for a fixed, non-empty run of characters: "\n", "=",    *)
(* " ", "\t", "#" and "\\" are the single characters, and a word such as   *)
(* "FAST_LLM" or "openai:gpt-4o" is the run of letters, digits and         *)
(* punctuation it spells (no newline, no "=", no blank, no backslash).     *)
(* The regular expressions of the source only ever test a key literally    *)
(* and let ".*" or ".+" run to the end of the line, so matching symbol by  *)
(* symbol is matching character by character.                              *)
(***************************************************************************)
EXTENDS Integers, Sequences, FiniteSets

VARIABLES
    env,            \* the file .env: [exists, text]
    backup,         \* the file .env.backup: [exists, text]
    pc,             \* position of the running procedure
    choice,         \* main: last line read at the selection prompt
    confirm,        \* main: last answer read at the confirmation prompt
    config_key,     \* main: index of the selected preset in the catalog (0: none)
    missing_keys,   \* main: result of check_required_keys for the selection
    listing,        \* main: missing keys per preset, as printed in the menu
    env0,           \* history: .env when the program started
    backup0,        \* history: .env.backup when the program started
    prewrite,       \* history: .env immediately before apply_config's write
    streak,         \* history: rejected selections in a row (capped)
    asked,          \* history: the confirmation prompt was shown
    reminded,       \* history: the "Don't forget to add your API key(s)" note was printed
    last_input,     \* history: what the last input() call returned or raised
    content,        \* call harness: argument content / required-key list holder
    key,            \* call harness: argument key
    value,          \* call harness: argument value
    required,       \* call harness: argument required_keys
    result,         \* call harness: value returned (or the exception raised)
    runs            \* call harness: .env after each successive apply_config

vars == <<env, backup, pc, choice, confirm, config_key, missing_keys, listing,
          env0, backup0, prewrite, streak, asked, reminded, last_input,
          content, key, value, required, result, runs>>

file_vars == <<env, backup, env0, backup0>>
call_vars == <<content, key, value, required, result, runs>>

---------------------------------------------------------------------------
(* Symbols and strings *)

NL == "\n"
EQ == "="
BS == "\\"
WhiteSpace == {" ", "\t"}

\* str + str
Cat(s, t) == s \o t

RECURSIVE Join(_)
\* "\n".join(lines)
Join(lines) ==
    IF lines = <<>> THEN <<>>
    ELSE IF Len(lines) = 1 THEN lines[1]
    ELSE Cat(lines[1], Cat(<<NL>>, Join(Tail(lines))))

RECURSIVE SplitFrom(_, _, _)
SplitFrom(s, p, cur) ==
    IF p > Len(s) THEN <<cur>>
    ELSE IF s[p] = NL THEN Cat(<<cur>>, SplitFrom(s, p + 1, <<>>))
    ELSE SplitFrom(s, p + 1, Append(cur, s[p]))

\* s.split("\n"): the physical lines "^" and "$" delimit under re.MULTILINE
Lines(s) == SplitFrom(s, 1, <<>>)

\* s.startswith(pre, p - 1), positions counted from 1
StartsWithAt(s, p, pre) ==
    /\ p + Len(pre) - 1 <= Len(s)
    /\ \A i \in 1..Len(pre) : s[p + i - 1] = pre[i]

---------------------------------------------------------------------------
(* The regular expressions of update_env_variable and check_required_keys *)

\* "^" under re.MULTILINE: the start of the string or just after a newline
AtLineStart(s, p) == p = 1 \/ s[p - 1] = NL

RECURSIVE LineEnd(_, _)
\* where ".*$" stops: the next newline at or after p, or the end of the string
LineEnd(s, p) ==
    IF p > Len(s) \/ s[p] = NL THEN p ELSE LineEnd(s, p + 1)

\* the pattern without its "^" anchor
MatchAtUnanchored(s, p, k) == StartsWithAt(s, p, Append(k, EQ))

\* rf'^{key}=.*$' matches at position p
MatchAt(s, p, k) == AtLineStart(s, p) /\ StartsWithAt(s, p, Append(k, EQ))

\* the search without re.MULTILINE: "^" is the start of the string only
re_search_no_multiline(k, s) == MatchAt(s, 1, k)

\* re.search(rf'^{key}=.*$', content, re.MULTILINE) is not None
re_search(k, s) == \E p \in 1..Len(s) : MatchAt(s, p, k)

RECURSIVE SubFrom(_, _, _, _)
SubFrom(s, p, k, repl) ==
    IF p > Len(s) THEN <<>>
    ELSE IF MatchAt(s, p, k) THEN Cat(repl, SubFrom(s, LineEnd(s, p), k, repl))
    ELSE Cat(<<s[p]>>, SubFrom(s, p + 1, k, repl))

\* re.sub(..., count=1): only the leftmost match is replaced
re_sub_first(k, repl, s) ==
    LET at == {p \in 1..Len(s) : MatchAt(s, p, k)}
    IN  IF at = {} THEN s
        ELSE LET p == CHOOSE q \in at : \A r \in at : q <= r
             IN  Cat(SubSeq(s, 1, p - 1),
                     Cat(repl, SubSeq(s, LineEnd(s, p), Len(s))))

\* re.sub(pattern, repl, content, flags=re.MULTILINE) with repl already expanded:
\* every non-overlapping match, left to right, is replaced
re_sub(k, repl, s) == SubFrom(s, 1, k, repl)

Returned(v) == [raised |-> FALSE, value |-> v]
Raised == [raised |-> TRUE, value |-> <<>>]

RECURSIVE expand_template(_)
\* re.sub treats its replacement as a template.  For the symbols that follow
\* a backslash in the values drawn below: backslash-n is a newline, two
\* backslashes are one, a backslash before "=", " " or "#" stays as it is,
\* and a backslash at the end of the template (or before a letter that is
\* no escape) raises re.error
expand_template(repl) ==
    IF repl = <<>> THEN Returned(<<>>)
    ELSE IF Head(repl) # BS THEN
        LET rest == expand_template(Tail(repl))
        IN  IF rest.raised THEN Raised ELSE Returned(Cat(<<Head(repl)>>, rest.value))
    ELSE IF Len(repl) = 1 THEN Raised
    ELSE LET c == repl[2]
             rest == expand_template(Tail(Tail(repl)))
         IN  IF c \notin {"n", BS, EQ, " ", "#"} THEN Raised
             ELSE IF rest.raised THEN Raised
             ELSE Returned(Cat(CASE c = "n" -> <<NL>>
                                 [] c = BS -> <<BS>>
                                 [] OTHER -> <<BS, c>>,
                               rest.value))

---------------------------------------------------------------------------
(* update_env_variable *)

update_env_variable(s, k, v) ==
    LET replacement == Cat(Append(k, EQ), v)
    IN  IF re_search(k, s)
        THEN LET t == expand_template(replacement)
             IN  IF t.raised THEN Raised ELSE Returned(re_sub(k, t.value, s))
        ELSE Returned(Cat(s, Cat(<<NL>>, replacement)))

RECURSIVE ApplyEntriesReversed(_, _)
\* the entries taken last to first
ApplyEntriesReversed(s, config) ==
    IF config = <<>> THEN Returned(s)
    ELSE LET e == config[Len(config)]
             r == update_env_variable(s, <<e[1]>>, <<e[2]>>)
         IN  IF r.raised THEN Raised
             ELSE ApplyEntriesReversed(r.value, SubSeq(config, 1, Len(config) - 1))

RECURSIVE ApplyEntries(_, _)
\* lines 45-46: for key, value in config.items(): content = update_env_variable(...)
ApplyEntries(s, config) ==
    IF config = <<>> THEN Returned(s)
    ELSE LET r == update_env_variable(s, <<config[1][1]>>, <<config[1][2]>>)
         IN  IF r.raised THEN Raised ELSE ApplyEntries(r.value, Tail(config))

---------------------------------------------------------------------------
(* Files *)

Absent == [exists |-> FALSE, text |-> <<>>]
File(s) == [exists |-> TRUE, text |-> s]

\* what read_text() gives, "" standing in for a missing file
TextOrEmpty(e) == IF e.exists THEN e.text ELSE <<>>

\* a backup step that never overwrites an earlier backup
backup_env_keeps_old(e, b) == IF e.exists /\ ~b.exists THEN File(e.text) ELSE b

\* backup_env: the new .env.backup
backup_env(e, b) == IF e.exists THEN File(e.text) ELSE b

\* apply_config: the content written to .env (or the exception raised before
\* the write)
apply_config(e, config) ==
    ApplyEntries(TextOrEmpty(e), config)

---------------------------------------------------------------------------
(* get_configurations: the presets, in the dict's insertion order *)

configurations == <<
    [key |-> "openrouter", name |-> "OpenRouter (Latest Anthropic)",
     config |-> << <<"FAST_LLM", "openrouter:anthropic/claude-3.5-haiku">>,
                   <<"SMART_LLM", "openrouter:anthropic/claude-sonnet-4">>,
                   <<"STRATEGIC_LLM", "openrouter:anthropic/claude-opus-4.1">>,
                   <<"OPENROUTER_LIMIT_RPS", "2.0">> >>,
     required_keys |-> <<"OPENROUTER_API_KEY">>],
    [key |-> "openrouter_budget", name |-> "OpenRouter (Budget)",
     config |-> << <<"FAST_LLM", "openrouter:anthropic/claude-3-haiku">>,
                   <<"SMART_LLM", "openrouter:anthropic/claude-3.5-sonnet">>,
                   <<"STRATEGIC_LLM", "openrouter:anthropic/claude-3.7-sonnet">>,
                   <<"OPENROUTER_LIMIT_RPS", "1.0">> >>,
     required_keys |-> <<"OPENROUTER_API_KEY">>],
    [key |-> "openrouter_premium", name |-> "OpenRouter (Premium)",
     config |-> << <<"FAST_LLM", "openrouter:anthropic/claude-sonnet-4">>,
                   <<"SMART_LLM", "openrouter:anthropic/claude-opus-4">>,
                   <<"STRATEGIC_LLM", "openrouter:anthropic/claude-opus-4.1">>,
                   <<"OPENROUTER_LIMIT_RPS", "2.0">> >>,
     required_keys |-> <<"OPENROUTER_API_KEY">>],
    [key |-> "openai", name |-> "OpenAI (Direct)",
     config |-> << <<"FAST_LLM", "openai:gpt-4o-mini">>,
                   <<"SMART_LLM", "openai:gpt-4o">>,
                   <<"STRATEGIC_LLM", "openai:o1-mini">> >>,
     required_keys |-> <<"OPENAI_API_KEY">>],
    [key |-> "ollama", name |-> "Ollama (Local)",
     config |-> << <<"FAST_LLM", "ollama:llama3">>,
                   <<"SMART_LLM", "ollama:llama3">>,
                   <<"STRATEGIC_LLM", "ollama:llama3">>,
                   <<"OLLAMA_BASE_URL", "http://localhost:11434">> >>,
     required_keys |-> << >>],
    [key |-> "anthropic", name |-> "Anthropic (Direct)",
     config |-> << <<"FAST_LLM", "anthropic:claude-3-haiku-20240307">>,
                   <<"SMART_LLM", "anthropic:claude-3-5-sonnet-20241022">>,
                   <<"STRATEGIC_LLM", "anthropic:claude-3-opus-20240229">> >>,
     required_keys |-> <<"ANTHROPIC_API_KEY">>] >>

---------------------------------------------------------------------------
(* check_required_keys *)

RECURSIVE lstrip(_)
lstrip(s) ==
    IF s # <<>> /\ Head(s) \in WhiteSpace THEN lstrip(Tail(s)) ELSE s

RECURSIVE rstrip(_)
rstrip(s) ==
    IF s # <<>> /\ s[Len(s)] \in WhiteSpace THEN rstrip(SubSeq(s, 1, Len(s) - 1)) ELSE s

\* str.strip()
strip(s) == rstrip(lstrip(s))

\* rf'^{key}=(.+)$' matches at position p: the rest of the line is not empty
ValueMatchAt(s, p, k) ==
    MatchAt(s, p, k) /\ LineEnd(s, p + Len(k) + 1) > p + Len(k) + 1

\* re.search(rf'^{key}=(.+)$', content, re.MULTILINE): the leftmost match's
\* group(1), or no match
re_search_value(k, s) ==
    LET at == {p \in 1..Len(s) : ValueMatchAt(s, p, k)}
    IN  IF at = {} THEN [match |-> FALSE, group1 |-> <<>>]
        ELSE LET p == CHOOSE q \in at : \A r \in at : q <= r
             IN  [match |-> TRUE,
                  group1 |-> SubSeq(s, p + Len(k) + 1, LineEnd(s, p + Len(k) + 1) - 1)]

\* line 132: if not match or not match.group(1).strip()
KeyIsMissing(k, s) ==
    LET m == re_search_value(k, s)
    IN  ~m.match \/ strip(m.group1) = <<>>

RECURSIVE MissingAmong(_, _)
\* lines 127-135: the loop over config_data["required_keys"]
MissingAmong(required_keys, s) ==
    IF required_keys = <<>> THEN <<>>
    ELSE Cat(IF KeyIsMissing(<<Head(required_keys)>>, s)
             THEN <<Head(required_keys)>> ELSE <<>>,
             MissingAmong(Tail(required_keys), s))

\* a checker that takes a missing file for a file without any key
check_required_keys_absent_is_empty(e, required_keys) ==
    MissingAmong(required_keys, TextOrEmpty(e))

check_required_keys(e, required_keys) ==
    IF ~e.exists THEN <<>> ELSE MissingAmong(required_keys, e.text)

---------------------------------------------------------------------------
(* Documents the operations are run on *)

MaxLines == 3

\* every text of at most n lines drawn from pool, with and without a final newline
DocsOf(pool, n) ==
    LET seqs == UNION {[1..m -> pool] : m \in 0..n}
    IN  {Join(ls) : ls \in seqs} \cup {Cat(Join(ls), <<NL>>) : ls \in seqs}

EditLines == {
    <<"FAST_LLM", EQ, "openai:gpt-4o-mini">>,
    <<"FAST_LLM", EQ, "ollama:llama3">>,
    <<"FAST_LLM", EQ>>,
    <<"X_", "FAST_LLM", EQ, "ollama:llama3">>,
    <<"#", " ", "FAST_LLM", EQ, "ollama:llama3">>,
    <<"FAST_LLM", "_EXTRA", EQ, "1.0">>,
    <<"SMART_LLM", EQ, "openai:gpt-4o">>,
    <<>> }

EditDocs == DocsOf(EditLines, MaxLines)

EditKeys == {<<"FAST_LLM">>, <<"SMART_LLM">>, <<"OLLAMA_BASE_URL">>}

EditValues == {<<"openai:gpt-4o">>, <<"ollama:llama3">>,
               <<BS, "n">>, <<BS, BS>>, <<BS>>}

\* input(): the line read, or KeyboardInterrupt
NoInput == [at |-> "none", line |-> <<>>, interrupted |-> FALSE]
Read(prompt, line) == [at |-> prompt, line |-> line, interrupted |-> FALSE]
Interrupted(prompt) == [at |-> prompt, line |-> <<>>, interrupted |-> TRUE]

MainIdle ==
    /\ pc = "call"
    /\ choice = <<>>
    /\ confirm = <<>>
    /\ config_key = 0
    /\ missing_keys = <<>>
    /\ listing = <<>>
    /\ prewrite = Absent
    /\ streak = 0
    /\ asked = FALSE
    /\ reminded = FALSE
    /\ last_input = NoInput

CallIdle ==
    /\ content = <<>>
    /\ key = <<>>
    /\ value = <<>>
    /\ required = <<>>
    /\ result = Returned(<<>>)
    /\ runs = <<>>

---------------------------------------------------------------------------
(* SpecUpdate: one call of update_env_variable(content, key, value) *)

InitUpdate ==
    /\ MainIdle
    /\ env = Absent /\ backup = Absent /\ env0 = Absent /\ backup0 = Absent
    /\ content \in EditDocs
    /\ key = <<>> /\ value = <<>> /\ required = <<>>
    /\ result = Returned(<<>>)
    /\ runs = <<>>

CallUpdateEnvVariable ==
    /\ pc = "call"
    /\ \E k \in EditKeys, v \in EditValues :
        /\ key' = k
        /\ value' = v
        /\ result' = update_env_variable(content, k, v)
    /\ pc' = "return"
    /\ UNCHANGED <<choice, confirm, config_key, missing_keys, listing,
                   prewrite, streak, asked, reminded, last_input>>
    /\ UNCHANGED file_vars
    /\ UNCHANGED <<content, required, runs>>

NextUpdate == CallUpdateEnvVariable

SpecUpdate == InitUpdate /\ [][NextUpdate]_vars

---------------------------------------------------------------------------
(* Properties of update_env_variable, under SpecUpdate *)

\* the line "KEY=VALUE"
KeyLine(k, v) == Cat(Append(k, EQ), v)

\* the line begins with "KEY="
Assigns(line, k) == StartsWithAt(line, 1, Append(k, EQ))

\* the positions of the lines of s that begin with "KEY="
AssignedAt(s, k) ==
    LET L == Lines(s) IN {i \in 1..Len(L) : Assigns(L[i], k)}

HasBackslash(v) == \E i \in 1..Len(v) : v[i] = BS

\* C1 as amended: when some line of the document begins with "K=" and V has
\* no backslash, the result has the same number of lines in the same order,
\* every line that begins with "K=" reads exactly "K=V", and every other
\* line is unchanged.
C1_EveryAssignmentReplaced ==
    (pc = "return" /\ AssignedAt(content, key) # {} /\ ~HasBackslash(value)) =>
        /\ ~result.raised
        /\ LET D == Lines(content)
               R == Lines(result.value)
           IN  /\ Len(R) = Len(D)
               /\ \A i \in 1..Len(D) :
                    R[i] = IF Assigns(D[i], key) THEN KeyLine(key, value) ELSE D[i]

\* C1 as stated (V without backslash): for every line i that reads "K=old",
\* the result is the document with line i reading "K=V" and every other
\* line, any other "K=" line included, unchanged.
C1_OnlyLineIChanges ==
    (pc = "return" /\ ~HasBackslash(value)) =>
        \A i \in AssignedAt(content, key) :
            /\ ~result.raised
            /\ Lines(result.value) =
                 [Lines(content) EXCEPT ![i] = KeyLine(key, value)]

C1_Witness ==
    /\ pc = "return"
    /\ ~HasBackslash(value)
    /\ Cardinality(AssignedAt(content, key)) >= 2
    /\ \E i \in 1..Len(Lines(content)) :
         ~Assigns(Lines(content)[i], key) /\ Lines(content)[i] # <<>>
    /\ ~result.raised
    /\ result.value # content

\* C2: when no line of the document begins with "K=", the result is the
\* document, byte for byte, followed by exactly one new last line "K=V":
\* the earlier lines are the document's lines in their order, and "K=V" is
\* the only line that begins with "K=".
C2_AbsentKeyAppended ==
    (pc = "return" /\ AssignedAt(content, key) = {}) =>
        /\ ~result.raised
        /\ SubSeq(result.value, 1, Len(content)) = content
        /\ Lines(result.value) = Append(Lines(content), KeyLine(key, value))
        /\ Cardinality(AssignedAt(result.value, key)) = 1

C2_Witness ==
    /\ pc = "return"
    /\ AssignedAt(content, key) = {}
    /\ \E i \in 1..Len(Lines(content)) :
         \E p \in 2..Len(Lines(content)[i]) :
            StartsWithAt(Lines(content)[i], p, Append(key, EQ))
    /\ Lines(result.value)[Len(Lines(result.value))] = KeyLine(key, value)

\* C4: when the key is absent, a newline is put before "K=V" only if the
\* content is non-empty and does not already end with a newline.
C4_SeparatorOnlyWhenNeeded ==
    (pc = "return" /\ AssignedAt(content, key) = {}) =>
        /\ ~result.raised
        /\ result.value =
             IF content # <<>> /\ content[Len(content)] # NL
             THEN Cat(content, Cat(<<NL>>, KeyLine(key, value)))
             ELSE Cat(content, KeyLine(key, value))

---------------------------------------------------------------------------
(* SpecApply: apply_config run again and again on one .env with one preset *)

MaxApplies == 2

ApplyLines == {
    <<"FAST_LLM", EQ, "ollama:llama3">>,
    <<"SMART_LLM", EQ, "openai:gpt-4o">>,
    <<"OPENROUTER_LIMIT_RPS", EQ, "1.0">>,
    <<"X_", "FAST_LLM", EQ, "openai:gpt-4o-mini">>,
    <<>> }

ApplyDocs == DocsOf(ApplyLines, MaxLines)

InitApply ==
    /\ pc = "call"
    /\ choice = <<>> /\ confirm = <<>> /\ missing_keys = <<>> /\ listing = <<>>
    /\ prewrite = Absent /\ streak = 0 /\ asked = FALSE /\ reminded = FALSE
    /\ last_input = NoInput
    /\ config_key \in 1..Len(configurations)
    /\ env \in {Absent} \cup {File(d) : d \in ApplyDocs}
    /\ env0 = env
    /\ backup = Absent /\ backup0 = Absent
    /\ CallIdle

RunApplyConfig ==
    /\ pc = "call"
    /\ Len(runs) < MaxApplies
    /\ LET r == apply_config(env, configurations[config_key].config)
       IN  IF r.raised
           THEN pc' = "raised" /\ UNCHANGED <<env, runs>>
           ELSE /\ env' = File(r.value)
                /\ runs' = Append(runs, File(r.value))
                /\ pc' = "call"
    /\ UNCHANGED <<choice, confirm, config_key, missing_keys, listing,
                   prewrite, streak, asked, reminded, last_input>>
    /\ UNCHANGED <<backup, env0, backup0>>
    /\ UNCHANGED <<content, key, value, required, result>>

NextApply == RunApplyConfig

SpecApply == InitApply /\ [][NextApply]_vars

\* the entries of config whose key no line of s assigns, in config's order
AbsentEntries(config, s) ==
    LET IsAbsent(e) == AssignedAt(s, <<e[1]>>) = {}
    IN  SelectSeq(config, IsAbsent)

\* the new lines for the absent keys are the last lines, in iteration order
AppendedInOrder(config, D, R) ==
    LET absent == AbsentEntries(config, D)
        n == Len(Lines(R))
    IN  /\ n >= Len(absent)
        /\ \A j \in 1..Len(absent) :
             Lines(R)[n - Len(absent) + j] = KeyLine(<<absent[j][1]>>, <<absent[j][2]>>)

\* C3: applying a preset a second time leaves .env as the first application
\* left it.
C3_ApplyTwiceIsApplyOnce ==
    Len(runs) >= 2 => runs[2] = runs[1]

C3_Witness ==
    /\ Len(runs) = 2
    /\ env0.exists
    /\ AssignedAt(env0.text, <<"FAST_LLM">>) # {}
    /\ AssignedAt(env0.text, <<"SMART_LLM">>) = {}
    /\ runs[1] # env0
    /\ env = runs[1]

\* C5 as amended: after a preset is applied, every key of the preset is
\* assigned by as many lines as before, or by one line if it was absent (so
\* by at most one line whenever the initial document had at most one), every
\* line assigning it reads exactly "K=V", and the keys that were absent are
\* the last lines, in the preset's iteration order.
C5_AssignmentsKeptAndAppendedInOrder ==
    Len(runs) >= 1 =>
        LET config == configurations[config_key].config
            D == TextOrEmpty(env0)
            R == runs[1].text
        IN  /\ \A n \in 1..Len(config) :
                 LET k == <<config[n][1]>>
                     v == <<config[n][2]>>
                     before == Cardinality(AssignedAt(D, k))
                 IN  /\ Cardinality(AssignedAt(R, k)) = IF before = 0 THEN 1 ELSE before
                     /\ \A i \in AssignedAt(R, k) : Lines(R)[i] = KeyLine(k, v)
            /\ AppendedInOrder(config, D, R)

\* C5 as stated: after a preset is applied to any document, at most one line
\* assigns each key of the preset, and the absent keys are the last lines in
\* iteration order.
C5_AtMostOneLinePerKey ==
    Len(runs) >= 1 =>
        LET config == configurations[config_key].config
            D == TextOrEmpty(env0)
            R == runs[1].text
        IN  /\ \A n \in 1..Len(config) :
                 Cardinality(AssignedAt(R, <<config[n][1]>>)) <= 1
            /\ AppendedInOrder(config, D, R)

C5_Witness ==
    /\ Len(runs) >= 1
    /\ Cardinality(AssignedAt(TextOrEmpty(env0), <<"FAST_LLM">>)) >= 2
    /\ AssignedAt(TextOrEmpty(env0), <<"SMART_LLM">>) = {}
    /\ Len(AbsentEntries(configurations[config_key].config, TextOrEmpty(env0))) >= 2
    /\ runs[1] # env0

---------------------------------------------------------------------------
(* SpecCheck: one call of check_required_keys on an existing .env *)

CheckLines == {
    <<"OPENROUTER_API_KEY", EQ, "abc123">>,
    <<"OPENROUTER_API_KEY", EQ>>,
    <<"OPENROUTER_API_KEY", EQ, " ">>,
    <<"OPENROUTER_API_KEY", EQ, " ", "abc123", "\t">>,
    <<"OPENAI_API_KEY", EQ, "sk-abc">>,
    <<"AZURE_", "OPENAI_API_KEY", EQ, "sk-abc">>,
    <<>> }

CheckDocs == DocsOf(CheckLines, MaxLines)

RequiredLists == {configurations[n].required_keys : n \in 1..Len(configurations)}
                 \cup {<<"OPENAI_API_KEY", "OPENROUTER_API_KEY">>}

InitCheck ==
    /\ MainIdle
    /\ env \in {File(d) : d \in CheckDocs}
    /\ env0 = env
    /\ backup = Absent /\ backup0 = Absent
    /\ CallIdle

CallCheckRequiredKeys ==
    /\ pc = "call"
    /\ \E rk \in RequiredLists :
        /\ required' = rk
        /\ result' = Returned(check_required_keys(env, rk))
    /\ pc' = "return"
    /\ UNCHANGED <<choice, confirm, config_key, missing_keys, listing,
                   prewrite, streak, asked, reminded, last_input>>
    /\ UNCHANGED file_vars
    /\ UNCHANGED <<content, key, value, runs>>

NextCheck == CallCheckRequiredKeys

SpecCheck == InitCheck /\ [][NextCheck]_vars

\* some line of s reads "KEY=VALUE" with VALUE neither empty nor blank
HasUsableValue(s, k) ==
    \E i \in AssignedAt(s, k) :
        strip(SubSeq(Lines(s)[i], Len(k) + 2, Len(Lines(s)[i]))) # <<>>

\* C7: check_required_keys returns exactly the required keys that no line
\* gives a non-empty, non-blank value, in the order of the required list.
C7_MissingIffNoUsableLine ==
    pc = "return" =>
        LET Lacking(k) == ~HasUsableValue(env.text, <<k>>)
        IN  result.value = SelectSeq(required, Lacking)

---------------------------------------------------------------------------
(* main: what it reads from the console *)

\* str.lower() on the letters the console lines below are made of
LowerOf(c) ==
    CASE c = "Q" -> "q" [] c = "Y" -> "y" [] c = "N" -> "n" [] OTHER -> c

lower(s) == [i \in 1..Len(s) |-> LowerOf(s[i])]

Digits == <<"0", "1", "2", "3", "4", "5", "6", "7", "8", "9">>

DigitValue(c) == (CHOOSE i \in 1..Len(Digits) : Digits[i] = c) - 1

IsDigit(c) == \E i \in 1..Len(Digits) : Digits[i] = c

RECURSIVE DecimalValue(_)
DecimalValue(ds) ==
    IF ds = <<>> THEN 0
    ELSE DecimalValue(SubSeq(ds, 1, Len(ds) - 1)) * Len(Digits) + DigitValue(ds[Len(ds)])

\* int(choice): blanks around the literal and one sign are accepted, anything
\* but decimal digits after that raises ValueError
py_int(s) ==
    LET t == strip(s)
        signed == t # <<>> /\ t[1] \in {"+", "-"}
        ds == IF signed THEN Tail(t) ELSE t
    IN  IF ds = <<>> \/ \E i \in 1..Len(ds) : ~IsDigit(ds[i]) THEN Raised
        ELSE Returned(IF signed /\ t[1] = "-" THEN 0 - DecimalValue(ds)
                      ELSE DecimalValue(ds))

\* list[idx] as Python reads it: a negative idx counts from the end
\* (the position in a sequence counted from 1)
PyIndex(n, idx) == IF idx >= 0 THEN idx + 1 ELSE n + idx + 1

\* line 162 with the lower end off by one
InRangeFromZero(n) == 0 <= n /\ n <= Len(configurations)

\* line 162: 1 <= choice_num <= len(configurations)
InRange(n) == 1 <= n /\ n <= Len(configurations)

\* line 171 as: if confirm == 'n'
DeclinedOnlyOnN(c) == c = <<"n">>

\* line 171: if confirm != 'y'
Declined(c) == c # <<"y">>

ChoiceInputs == {
    <<"q">>, <<"Q">>, <<" ", "q">>,
    <<"1">>, <<"2">>, <<"3">>, <<"4">>, <<"5">>, <<"6">>,
    <<" ", "2", " ">>, <<"+", "4">>,
    <<"0">>, <<"-", "1">>, <<"7">>, <<"9", "9">>,
    <<"a", "b", "c">>, <<>> }

ConfirmInputs == {
    <<"y">>, <<"Y">>, <<" ", "y", " ">>,
    <<"n">>, <<"N">>, <<"y", "e", "s">>, <<>> }

MaxEnvLines == 2
MaxStreak == 3

EnvLines == {
    <<"OPENROUTER_API_KEY", EQ, "abc123">>,
    <<"OPENROUTER_API_KEY", EQ>>,
    <<"OPENAI_API_KEY", EQ, "sk-abc">>,
    <<"FAST_LLM", EQ, "openai:gpt-4o-mini">>,
    <<"#", " ", "comment">> }

EnvFiles == {Absent} \cup {File(d) : d \in DocsOf(EnvLines, MaxEnvLines)}

BackupFiles == {Absent, File(<<"FAST_LLM", EQ, "ollama:llama3", NL>>)}

---------------------------------------------------------------------------
(* Spec: main *)

Init ==
    /\ env \in EnvFiles
    /\ backup \in BackupFiles
    /\ env0 = env
    /\ backup0 = backup
    /\ pc = "start"
    /\ choice = <<>>
    /\ confirm = <<>>
    /\ config_key = 0
    /\ missing_keys = <<>>
    /\ listing = <<>>
    /\ prewrite = Absent
    /\ streak = 0
    /\ asked = FALSE
    /\ reminded = FALSE
    /\ last_input = NoInput
    /\ CallIdle

\* lines 141-151: the menu, with each preset's missing keys
ListConfigurations ==
    /\ pc = "start"
    /\ listing' = [n \in 1..Len(configurations) |->
                     check_required_keys(env, configurations[n].required_keys)]
    /\ pc' = "select"
    /\ UNCHANGED <<choice, confirm, config_key, missing_keys,
                   prewrite, streak, asked, reminded, last_input>>
    /\ UNCHANGED file_vars
    /\ UNCHANGED call_vars

\* lines 188-191: "Invalid choice" and the ValueError handler; the loop goes round
Reprompt ==
    /\ pc' = "select"
    /\ streak' = IF streak < MaxStreak THEN streak + 1 ELSE streak
    /\ UNCHANGED <<config_key, missing_keys, asked>>

\* lines 155-172 and 188-191: one line read at the selection prompt
Select ==
    /\ pc = "select"
    /\ \E c \in ChoiceInputs :
        /\ choice' = c
        /\ last_input' = Read("select", c)
        /\ IF lower(c) = <<"q">>
           THEN /\ pc' = "quit"
                /\ UNCHANGED <<config_key, missing_keys, asked, streak>>
           ELSE LET n == py_int(c)
                IN  IF n.raised THEN Reprompt
                    ELSE IF InRange(n.value)
                    THEN LET at == PyIndex(Len(configurations), n.value - 1)
                             mk == check_required_keys(
                                      env, configurations[at].required_keys)
                         IN  /\ config_key' = at
                             /\ missing_keys' = mk
                             /\ streak' = 0
                             /\ asked' = (asked \/ mk # <<>>)
                             /\ pc' = IF mk # <<>> THEN "confirm" ELSE "backup"
                    ELSE Reprompt
    /\ UNCHANGED <<confirm, listing, prewrite, reminded>>
    /\ UNCHANGED file_vars
    /\ UNCHANGED call_vars

\* lines 170-172: the answer to "Continue anyway? (y/n): "
Confirm ==
    /\ pc = "confirm"
    /\ \E a \in ConfirmInputs :
        /\ last_input' = Read("confirm", a)
        /\ confirm' = strip(lower(a))
        /\ pc' = IF Declined(strip(lower(a))) THEN "select" ELSE "backup"
    /\ UNCHANGED <<choice, config_key, missing_keys, listing,
                   prewrite, streak, asked, reminded>>
    /\ UNCHANGED file_vars
    /\ UNCHANGED call_vars

\* lines 192-194: KeyboardInterrupt while input() waits
KeyboardInterrupt ==
    /\ pc \in {"select", "confirm"}
    /\ last_input' = Interrupted(pc)
    /\ pc' = "quit"
    /\ UNCHANGED <<choice, confirm, config_key, missing_keys, listing,
                   prewrite, streak, asked, reminded>>
    /\ UNCHANGED file_vars
    /\ UNCHANGED call_vars

\* line 175: backup_env()
BackupEnv ==
    /\ pc = "backup"
    /\ backup' = backup_env(env, backup)
    /\ pc' = "apply"
    /\ UNCHANGED <<choice, confirm, config_key, missing_keys, listing,
                   prewrite, streak, asked, reminded, last_input>>
    /\ UNCHANGED <<env, env0, backup0>>
    /\ UNCHANGED call_vars

\* lines 178-187: apply_config(...), the closing messages and break
ApplyConfig ==
    /\ pc = "apply"
    /\ LET r == apply_config(env, configurations[config_key].config)
       IN  IF r.raised
           THEN pc' = "raised" /\ UNCHANGED <<env, prewrite, reminded>>
           ELSE /\ prewrite' = env
                /\ env' = File(r.value)
                /\ reminded' = (missing_keys # <<>>)
                /\ pc' = "done"
    /\ UNCHANGED <<choice, confirm, config_key, missing_keys, listing,
                   streak, asked, last_input>>
    /\ UNCHANGED <<backup, env0, backup0>>
    /\ UNCHANGED call_vars

Next ==
    \/ ListConfigurations
    \/ Select
    \/ Confirm
    \/ KeyboardInterrupt
    \/ BackupEnv
    \/ ApplyConfig

Spec == Init /\ [][Next]_vars

---------------------------------------------------------------------------
(* Properties of main, under Spec *)

\* every entry of the preset is a line of the file
HoldsEntries(e, config) ==
    /\ e.exists
    /\ \A n \in 1..Len(config) :
         \E i \in 1..Len(Lines(e.text)) :
            Lines(e.text)[i] = KeyLine(<<config[n][1]>>, <<config[n][2]>>)

\* C6: nothing is written to .env before the backup step is over, and once
\* the backup step is over .env.backup holds exactly what .env held just
\* before the write if .env existed, and is what it was at the start if not.
C6_BackupBeforeWrite ==
    /\ pc # "done" => env = env0
    /\ pc \in {"start", "select", "confirm", "backup", "quit"} => backup = backup0
    /\ pc \in {"apply", "done"} =>
         LET before == IF pc = "apply" THEN env ELSE prewrite
         IN  backup = IF before.exists THEN File(before.text) ELSE backup0

C6_Witness ==
    /\ pc = "done"
    /\ prewrite.exists
    /\ backup0.exists
    /\ backup # backup0
    /\ backup.text = prewrite.text
    /\ env # prewrite

\* the answers that say `y`
YesAnswers == {<<"y">>, <<"Y">>, <<" ", "y", " ">>}

C8_OnlyAfterYes ==
    (pc \in {"backup", "apply", "done"} /\ missing_keys # <<>>) =>
        /\ last_input.at = "confirm"
        /\ ~last_input.interrupted
        /\ last_input.line \in YesAnswers
        /\ pc = "done" => HoldsEntries(env, configurations[config_key].config)

C8_AnswerDecides ==
    (pc = "confirm" /\ last_input'.at = "confirm" /\ ~last_input'.interrupted) =>
        /\ env' = env
        /\ backup' = backup
        /\ pc' = IF last_input'.line \in YesAnswers THEN "backup" ELSE "select"

\* C8: with required credentials missing, the preset is applied if and only
\* if the answer to the confirmation prompt is `y`: after `y` main goes on to
\* the backup and the write, after any other answer it is back at the
\* selection prompt with .env and .env.backup untouched.
C8_AppliedIffConfirmed == []C8_OnlyAfterYes /\ [][C8_AnswerDecides]_vars

C8_Witness ==
    /\ pc = "done"
    /\ missing_keys # <<>>
    /\ last_input.line \in YesAnswers
    /\ env0.exists
    /\ env # env0
    /\ HoldsEntries(env, configurations[config_key].config)

\* out-of-range numbers and non-numeric text other than `q`
RejectedInputs == {<<"0">>, <<"-", "1">>, <<"7">>, <<"9", "9">>,
                   <<"a", "b", "c">>, <<" ", "q">>, <<>>}

C9_RejectedStep ==
    (pc = "select" /\ last_input'.at = "select" /\ ~last_input'.interrupted
        /\ last_input'.line \in RejectedInputs) =>
        /\ pc' = "select"
        /\ env' = env /\ env' = env0
        /\ backup' = backup /\ backup' = backup0

\* C9: a selection that is out of range or not a number (and not `q`) leaves
\* .env and .env.backup as they were and puts main back at the selection
\* prompt, however many such selections came before it.
C9_InvalidSelectionReprompts == [][C9_RejectedStep]_vars

C9_Witness ==
    /\ pc = "select"
    /\ streak >= 2
    /\ last_input.line \in RejectedInputs
    /\ env.exists
    /\ env = env0
    /\ backup = backup0

\* C10: when .env does not exist, every preset is listed without missing
\* keys, a valid selection goes to the backup and the write without the
\* confirmation prompt, .env.backup stays as it was, no reminder is printed,
\* and the .env created holds the preset's entries.
C10_AbsentFileNeverAsks ==
    ~env0.exists =>
        /\ pc # "start" => \A n \in 1..Len(configurations) : listing[n] = <<>>
        /\ missing_keys = <<>>
        /\ ~asked
        /\ pc # "confirm"
        /\ ~reminded
        /\ backup = backup0
        /\ config_key # 0 => pc \in {"backup", "apply", "done"}
        /\ pc = "done" => HoldsEntries(env, configurations[config_key].config)

C10_Witness ==
    /\ ~env0.exists
    /\ pc = "done"
    /\ configurations[config_key].required_keys # <<>>
    /\ ~backup.exists
    /\ env.exists

===========================================================================
